---- MODULE Spec2Model ----
(***************************************************************************)
(* A model of go-db: a Go program that opens a database/sql handle on a    *)
(* PostgreSQL database, waits for it to answer a ping, creates the table   *)
(* albums, inserts four albums and reads them back (src/main.go), and the  *)
(* shorter variant that only connects (src/unnamed/part_000).              *)
(*                                                                         *)
(* The database is modelled by what the SQL text in the source asks of it: *)
(* a catalog entry for albums, its rows in heap order, and the identity    *)
(* sequence of the id column.  Errors and log lines are sequences of       *)
(* tokens, so that fmt.Errorf's wrapping is concatenation as in the code.  *)
(***************************************************************************)
EXTENDS Integers, Sequences, FiniteSets, TLC

VARIABLES
    db,        \* the database: [tables, rows, nextId]
    handle,    \* the *sql.DB of main: "unopened", "open" or "closed"
    pc,        \* where main is; "lib" when the functions are called directly
    variant,   \* which main runs: "full" (main.go) or "connect" (part_000)
    deferred,  \* main's stack of deferred calls
    log,       \* the lines written through package log, oldest first
    pings,     \* results of db.Ping() so far, oldest first
    sleeps,    \* number of time.Sleep(time.Second) calls completed
    trace,     \* the database functions main has called, in order
    closes,    \* number of db.Close() calls
    inserted,  \* argument of the latest insert_data call that returned nil
    last       \* the latest call of a database function, with what it saw

vars == <<db, handle, pc, variant, deferred, log, pings, sleeps, trace,
          closes, inserted, last>>

----------------------------------------------------------------------------
(* Bounds of the model *)

\* most values the identity sequence hands out in a run of the library model
MaxId == 3
\* most failed pings before the database answers
MaxPingFails == 3

----------------------------------------------------------------------------
(* Values *)

Titles == {"Grace", "Goo"}
Artists == {"Jeff Buckley", "Sonic Youth"}

\* a nil error, a nil *int64, a nil slice
Nil == <<>>

\* type Album struct { ID *int64; Title, Artist string; Score int64 }
Album(id, title, artist, score) ==
    [ID |-> id, Title |-> title, Artist |-> artist, Score |-> score]

\* var alb Album
ZeroAlbum == Album(Nil, "", "", 0)

\* the albums the library model inserts (ID is never set by the caller):
\* a title shared by two artists, a title and artist with two scores, an
\* artist with two titles, and scores on and beyond both ends of [0,10]
Albums ==
    {Album(Nil, "Grace", "Jeff Buckley", 10),
     Album(Nil, "Grace", "Jeff Buckley", 0),
     Album(Nil, "Grace", "Sonic Youth", 10),
     Album(Nil, "Goo", "Sonic Youth", 0),
     Album(Nil, "Goo", "Sonic Youth", 11),
     Album(Nil, "Grace", "Jeff Buckley", -1)}

\* the four albums of main
album1 == Album(Nil, "Grace", "Jeff Buckley", 9)
album2 == Album(Nil, "Requiem in D minor, K. 626", "Wolfgang Amadeus Mozart", 9)
album3 == Album(Nil, "Goo", "Sonic Youth", 8)
album4 == Album(Nil, "Daydream Nation", "Sonic Youth", 10)

\* driver-level errors (what err.Error() prints, as one token each)
ErrNoRows == <<"sql: no rows in result set">>
ErrDBClosed == <<"sql: database is closed">>
ErrConn == <<"failed to connect">>
ErrUndefinedTable == <<"relation \"albums\" does not exist">>
ErrCheck == <<"violates check constraint \"albums_score_check\"">>
ErrDuplicateTable == <<"relation \"albums\" already exists">>

EmptyDb == [tables |-> 0, rows |-> <<>>, nextId |-> 1]

----------------------------------------------------------------------------
(* The database, as the SQL statements of the source use it *)

\* columns of albums in declaration order, which is the order of SELECT *
ColId == 1
ColTitle == 2
ColArtist == 3
ColScore == 4

TableExists(d) == d.tables >= 1

\* Seeded fault: the CHECK constraint lacks its upper bound
ScoreCheckLoose(score) == score >= 0

\* CHECK (score >= 0 AND score <= 10)
ScoreCheck(score) == score >= 0 /\ score <= 10

\* Seeded fault: CREATE TABLE albums (...) without IF NOT EXISTS, for which
\* an existing table is an error
CreateTableUnguarded(d) ==
    IF TableExists(d)
    THEN [db |-> d, err |-> ErrDuplicateTable]
    ELSE [db |-> [d EXCEPT !.tables = 1], err |-> Nil]

\* CREATE TABLE IF NOT EXISTS albums (...)
CreateTableIfNotExists(d) ==
    IF TableExists(d)
    THEN [db |-> d, err |-> Nil]
    ELSE [db |-> [d EXCEPT !.tables = 1], err |-> Nil]

\* INSERT INTO albums (title, artist, score) VALUES ($1, $2, $3): the id is
\* GENERATED ALWAYS AS IDENTITY, taken from the sequence before the CHECK
\* constraint is evaluated, so a rejected row still consumes a value.
InsertRow(d, title, artist, score) ==
    LET taken == [d EXCEPT !.nextId = d.nextId + 1]
    IN  IF ~ScoreCheck(score)
        THEN [db |-> taken, err |-> ErrCheck]
        ELSE [db |-> [taken EXCEPT
                        !.rows = Append(d.rows, <<d.nextId, title, artist, score>>)],
              err |-> Nil]

\* the indices of the rows whose column col equals val
Matching(d, col, val) == {i \in DOMAIN d.rows : d.rows[i][col] = val}

\* all orders in which the indices of S can be listed
RECURSIVE Orders(_)
Orders(S) ==
    IF S = {} THEN {<<>>}
    ELSE UNION {{<<i>> \o o : o \in Orders(S \ {i})} : i \in S}

\* SELECT * FROM albums WHERE col = $1: no ORDER BY, so the database may
\* return the matching rows in any order
ResultSets(d, col, val) ==
    {[k \in 1..Len(o) |-> d.rows[o[k]]] : o \in Orders(Matching(d, col, val))}

\* what QueryRow's Row holds of such a result: Scan reads its first row
\* and closes it, so the rest is never fetched
FirstRows(d, col, val) ==
    {IF rs = <<>> THEN <<>> ELSE <<Head(rs)>> : rs \in ResultSets(d, col, val)}

----------------------------------------------------------------------------
(* database/sql between the program and the database *)

\* where a call can fail for a reason of the connection
NoFault == "none"

\* an operation on the handle: a closed handle refuses it, and the connection
\* may fail at the point the environment picked
ConnErr(h, fault, point) ==
    IF h # "open" THEN ErrDBClosed
    ELSE IF fault = point THEN ErrConn
    ELSE Nil

\* a statement that names albums fails on the server when the table is absent
StmtErr(d, h, fault, point) ==
    IF ConnErr(h, fault, point) # Nil THEN ConnErr(h, fault, point)
    ELSE IF ~TableExists(d) THEN ErrUndefinedTable
    ELSE Nil

\* the results a query can deliver: none when the statement failed
Delivered(d, h, fault, results) ==
    IF StmtErr(d, h, fault, "query") # Nil THEN {<<>>} ELSE results

\* the cursor ended cleanly
NoCut == -1

\* where the cursor of a started query can break: nowhere, or after any
\* number of the rows of rs, the last included
Cuts(d, h, fault, rs) ==
    IF StmtErr(d, h, fault, "query") # Nil THEN {NoCut}
    ELSE {NoCut} \cup (0..Len(rs))

\* the decimal digit characters, and the value of one
DigitChars == <<"0", "1", "2", "3", "4", "5", "6", "7", "8", "9">>
DigitValue(c) == CHOOSE v \in 0..9 : DigitChars[v + 1] = c

\* the decimal text of a natural number, most significant digit first
RECURSIVE Digits(_)
Digits(n) ==
    IF n < 10 THEN <<DigitChars[n + 1]>>
    ELSE Digits(n \div 10) \o <<DigitChars[(n % 10) + 1]>>

\* strconv.FormatFloat(v, 'g', -1, 64) of an integral REAL value
FormatFloat(v) == IF v < 0 THEN <<"-">> \o Digits(-v) ELSE Digits(v)

\* strconv.ParseInt(s, 10, 64) of a string of digits with an optional sign
RECURSIVE ParseDigits(_, _)
ParseDigits(s, acc) ==
    IF s = <<>> THEN acc
    ELSE ParseDigits(Tail(s), 10 * acc + DigitValue(Head(s)))

ParseInt(s) ==
    IF Head(s) = "-" THEN -ParseDigits(Tail(s), 0) ELSE ParseDigits(s, 0)

\* Scan(&alb.ID, &alb.Title, &alb.Artist, &alb.Score): the destinations are
\* filled from the columns by position; it fails when the counts differ
ScanOk(row) == Len(row) = 4

ErrScan == <<"sql: expected 4 destination arguments in Scan">>

\* Seeded fault: the destinations for title and artist exchanged
ScanSwapped(row) ==
    Album(<<row[ColId]>>, row[ColArtist], row[ColTitle],
          ParseInt(FormatFloat(row[ColScore])))

\* the REAL score reaches the int64 field through its decimal text
Scan(row) ==
    Album(<<row[ColId]>>, row[ColTitle], row[ColArtist],
          ParseInt(FormatFloat(row[ColScore])))

\* log.Printf("...: %v", album): the fields as text
FmtAlbum(a) == <<a.Title, a.Artist, ToString(a.Score)>>

----------------------------------------------------------------------------
(* The functions of main.go.  Each takes the database d, the state h of  *)
(* the handle and what the environment decides, and gives the database   *)
(* after the call, what the call returns and the lines it logs.          *)

\* func create_table(db *sql.DB): err is what db.Exec returned; the function
\* itself returns nothing and logs the success line in either case
create_table(d, h, fault) ==
    LET r == IF ConnErr(h, fault, "exec") # Nil
             THEN [db |-> d, err |-> ConnErr(h, fault, "exec")]
             ELSE CreateTableIfNotExists(d)
    IN  [db |-> r.db, err |-> r.err,
         logs |-> (IF r.err # Nil THEN <<r.err>> ELSE <<>>)
                  \o << <<"Table albums created successfully">> >>]

\* func insert_data(db *sql.DB, album Album) error
insert_data(d, h, album, fault) ==
    LET prep == StmtErr(d, h, fault, "prepare")
    IN  IF prep # Nil
        THEN [db |-> d, err |-> <<"insert_data:">> \o prep, logs |-> <<>>]
        ELSE LET ex == IF ConnErr(h, fault, "exec") # Nil
                       THEN [db |-> d, err |-> ConnErr(h, fault, "exec")]
                       ELSE InsertRow(d, album.Title, album.Artist, album.Score)
             IN  IF ex.err # Nil
                 THEN [db |-> ex.db, err |-> <<"insert_data:">> \o ex.err,
                       logs |-> <<>>]
                 ELSE [db |-> ex.db, err |-> Nil,
                       logs |-> << <<"Inserted into albums:">> \o FmtAlbum(album) >>]

\* Seeded fault: every Scan error is reported as a missing album
album_by_title_conflated(d, h, title, fault, rs) ==
    LET err == IF StmtErr(d, h, fault, "query") # Nil
               THEN StmtErr(d, h, fault, "query")
               ELSE IF rs = <<>> THEN ErrNoRows
               ELSE IF ~ScanOk(rs[1]) THEN ErrScan
               ELSE Nil
    IN  IF err # Nil
        THEN [db |-> d, out |-> <<ZeroAlbum>>,
              err |-> <<"no albums with title", title>>]
        ELSE [db |-> d, out |-> <<Scan(rs[1])>>, err |-> Nil]

\* func album_by_title(db *sql.DB, title string) (Album, error): rs is the
\* result of the SELECT, of which row.Scan reads the first row only
album_by_title(d, h, title, fault, rs) ==
    LET err == IF StmtErr(d, h, fault, "query") # Nil
               THEN StmtErr(d, h, fault, "query")
               ELSE IF rs = <<>> THEN ErrNoRows
               ELSE IF ~ScanOk(rs[1]) THEN ErrScan
               ELSE Nil
    IN  IF err # Nil
        THEN IF err = ErrNoRows
             THEN [db |-> d, out |-> <<ZeroAlbum>>,
                   err |-> <<"no albums with title", title>>]
             ELSE [db |-> d, out |-> <<ZeroAlbum>>,
                   err |-> <<"album_by_title", title>> \o err]
        ELSE [db |-> d, out |-> <<Scan(rs[1])>>, err |-> Nil]

\* for rows.Next() { ... }: read holds the rows Next delivers; the result
\* is the accumulated slice, or the index of the row whose Scan failed
RECURSIVE Iterate(_, _, _)
Iterate(read, i, albums) ==
    IF i > Len(read) THEN [albums |-> albums, failed |-> 0]
    ELSE IF ~ScanOk(read[i]) THEN [albums |-> albums, failed |-> i]
    ELSE Iterate(read, i + 1, Append(albums, Scan(read[i])))

\* Seeded fault: the accumulated albums are dropped when rows.Err() is not nil
albums_by_artist_dropping(d, h, name, fault, rs, cut) ==
    LET qerr == StmtErr(d, h, fault, "query")
        it == Iterate(IF cut = NoCut THEN rs ELSE SubSeq(rs, 1, cut), 1, <<>>)
    IN  IF qerr # Nil
        THEN [db |-> d, out |-> Nil, err |-> <<"album_by_artist", name>> \o qerr]
        ELSE IF cut # NoCut
        THEN [db |-> d, out |-> Nil, err |-> <<"albums_by_artist", name>> \o ErrConn]
        ELSE [db |-> d, out |-> it.albums, err |-> Nil]

\* Seeded fault: the loop stops one row early
albums_by_artist_short(d, h, name, fault, rs, cut) ==
    LET qerr == StmtErr(d, h, fault, "query")
        read == IF cut = NoCut THEN rs ELSE SubSeq(rs, 1, cut)
        it == Iterate(SubSeq(read, 1, Len(read) - 1), 1, <<>>)
    IN  IF qerr # Nil
        THEN [db |-> d, out |-> Nil, err |-> <<"album_by_artist", name>> \o qerr]
        ELSE IF cut # NoCut
        THEN [db |-> d, out |-> it.albums,
              err |-> <<"albums_by_artist", name>> \o ErrConn]
        ELSE [db |-> d, out |-> it.albums, err |-> Nil]

\* func albums_by_artist(db *sql.DB, name string) ([]Album, error): rs is the
\* result of the SELECT; the cursor delivers all of it (cut = NoCut) or
\* breaks after cut rows, which rows.Err() then reports
albums_by_artist(d, h, name, fault, rs, cut) ==
    LET qerr == StmtErr(d, h, fault, "query")
        it == Iterate(IF cut = NoCut THEN rs ELSE SubSeq(rs, 1, cut), 1, <<>>)
    IN  IF qerr # Nil
        THEN [db |-> d, out |-> Nil, err |-> <<"album_by_artist", name>> \o qerr]
        ELSE IF it.failed # 0
        THEN [db |-> d, out |-> Nil, err |-> <<"albums_by_artist", name>> \o ErrScan]
        ELSE IF cut # NoCut
        THEN [db |-> d, out |-> it.albums,
              err |-> <<"albums_by_artist", name>> \o ErrConn]
        ELSE [db |-> d, out |-> it.albums, err |-> Nil]

----------------------------------------------------------------------------
(* The library model: the four database functions called in any order,   *)
(* with any arguments, on an open handle.                                 *)

NoCall ==
    [op |-> "none", album |-> ZeroAlbum, key |-> "", fault |-> NoFault,
     cut |-> NoCut, rs |-> <<>>, pre |-> EmptyDb, out |-> <<>>, err |-> Nil]

\* the record of a call
Call(op, album, key, fault, cut, rs, pre, r) ==
    [op |-> op, album |-> album, key |-> key, fault |-> fault, cut |-> cut,
     rs |-> rs, pre |-> pre, out |-> r.out, err |-> r.err]

LibInit ==
    /\ db = EmptyDb
    /\ handle = "open"
    /\ pc = "lib"
    /\ variant = "full"
    /\ deferred = <<>>
    /\ log = <<>>
    /\ pings = <<>>
    /\ sleeps = 0
    /\ trace = <<>>
    /\ closes = 0
    /\ inserted = <<>>
    /\ last = NoCall

LibUnchanged ==
    UNCHANGED <<handle, pc, variant, deferred, log, pings, sleeps, trace, closes>>

LibCreateTable ==
    /\ pc = "lib"
    /\ \E fault \in {NoFault, "exec"} :
         LET r == create_table(db, handle, fault)
         IN  /\ db' = r.db
             /\ last' = Call("create_table", ZeroAlbum, "", fault, NoCut, <<>>, db,
                             [out |-> <<>>, err |-> r.err])
    /\ UNCHANGED inserted
    /\ LibUnchanged

LibInsertData ==
    /\ pc = "lib"
    /\ db.nextId <= MaxId
    /\ \E album \in Albums, fault \in {NoFault, "prepare", "exec"} :
         LET r == insert_data(db, handle, album, fault)
         IN  /\ db' = r.db
             /\ inserted' = IF r.err = Nil THEN <<album>> ELSE inserted
             /\ last' = Call("insert_data", album, "", fault, NoCut, <<>>, db,
                             [out |-> <<>>, err |-> r.err])
    /\ LibUnchanged

LibAlbumByTitle ==
    /\ pc = "lib"
    /\ \E title \in Titles, fault \in {NoFault, "query"} :
         \E rs \in Delivered(db, handle, fault, FirstRows(db, ColTitle, title)) :
            LET r == album_by_title(db, handle, title, fault, rs)
            IN  /\ db' = r.db
                /\ last' = Call("album_by_title", ZeroAlbum, title, fault, NoCut,
                                rs, db, r)
    /\ UNCHANGED inserted
    /\ LibUnchanged

LibAlbumsByArtist ==
    /\ pc = "lib"
    /\ \E name \in Artists, fault \in {NoFault, "query"} :
         \E rs \in Delivered(db, handle, fault, ResultSets(db, ColArtist, name)) :
            \E cut \in Cuts(db, handle, fault, rs) :
               LET r == albums_by_artist(db, handle, name, fault, rs, cut)
               IN  /\ db' = r.db
                   /\ last' = Call("albums_by_artist", ZeroAlbum, name, fault, cut,
                                   rs, db, r)
    /\ UNCHANGED inserted
    /\ LibUnchanged

Next ==
    \/ LibCreateTable
    \/ LibInsertData
    \/ LibAlbumByTitle
    \/ LibAlbumsByArtist

Spec == LibInit /\ [][Next]_vars

----------------------------------------------------------------------------
(* The program model: func main of main.go ("full") and of part_000      *)
(* ("connect"), one action per statement that touches the handle.         *)

MainAlbums == <<album1, album2, album3, album4>>
InsertPcs == <<"insert_data1", "insert_data2", "insert_data3", "insert_data4">>

\* the order in which main calls the database functions
MainCalls ==
    <<"create_table", "insert_data", "insert_data", "insert_data", "insert_data",
      "album_by_title", "albums_by_artist">>

ErrOpen == <<"sql: unknown driver or malformed connection string">>

\* the database a run of main.go leaves behind when nothing fails
RECURSIVE InsertAll(_, _)
InsertAll(d, k) ==
    IF k > Len(MainAlbums) THEN d
    ELSE InsertAll(insert_data(d, "open", MainAlbums[k], NoFault).db, k + 1)

PriorRun == InsertAll(create_table(EmptyDb, "open", NoFault).db, 1)

\* main stands at sql.Open: the statements before it read the environment
\* and build the connection string.  The database is new, or as an earlier
\* run left it.
MainInit ==
    /\ db \in {EmptyDb, PriorRun}
    /\ handle = "unopened"
    /\ pc = "open"
    /\ variant \in {"full", "connect"}
    /\ deferred = <<>>
    /\ log = <<>>
    /\ pings = <<>>
    /\ sleeps = 0
    /\ trace = <<>>
    /\ closes = 0
    /\ inserted = <<>>
    /\ last = NoCall

\* db, err := sql.Open("pgx", conn_url) with err == nil
OpenOk ==
    /\ pc = "open"
    /\ handle' = "open"
    /\ pc' = "defer"
    /\ UNCHANGED <<db, variant, deferred, log, pings, sleeps, trace, closes,
                   inserted, last>>

\* sql.Open fails: log.Fatal(err) prints and calls os.Exit(1), which runs
\* no deferred call
OpenFail ==
    /\ pc = "open"
    /\ log' = Append(log, ErrOpen)
    /\ pc' = "exit(1)"
    /\ UNCHANGED <<db, handle, variant, deferred, pings, sleeps, trace, closes,
                   inserted, last>>

\* Seeded fault: db.Close() is called at once instead of being deferred
CloseAtOnce ==
    /\ pc = "defer"
    /\ handle' = "closed"
    /\ closes' = closes + 1
    /\ pc' = "ping"
    /\ UNCHANGED <<db, variant, deferred, log, pings, sleeps, trace, inserted, last>>

\* defer db.Close()
Defer ==
    /\ pc = "defer"
    /\ deferred' = <<"db.Close">> \o deferred
    /\ pc' = "ping"
    /\ UNCHANGED <<db, handle, variant, log, pings, sleeps, trace, closes,
                   inserted, last>>

\* the number of failed pings so far
PingFails == Cardinality({i \in DOMAIN pings : pings[i] = "fail"})

\* wait_for_db returned: main.go goes on to create_table, part_000 returns
AfterWait == IF variant = "full" THEN "create_table" ELSE "return"

\* wait_for_db: db.Ping() returns nil
PingOk ==
    /\ pc = "ping"
    /\ pings' = Append(pings, "ok")
    /\ log' = Append(log, <<"Connected to database.">>)
    /\ pc' = AfterWait
    /\ UNCHANGED <<db, handle, variant, deferred, sleeps, trace, closes,
                   inserted, last>>

\* Seeded fault: wait_for_db gives up after a failed ping
PingFailGiveUp ==
    /\ pc = "ping"
    /\ PingFails < MaxPingFails
    /\ pings' = Append(pings, "fail")
    /\ log' = log \o <<ErrConn>>
    /\ pc' = AfterWait
    /\ UNCHANGED <<db, handle, variant, deferred, sleeps, trace, closes,
                   inserted, last>>

\* wait_for_db: db.Ping() returns an error, which is logged with the notice
PingFail ==
    /\ pc = "ping"
    /\ PingFails < MaxPingFails
    /\ pings' = Append(pings, "fail")
    /\ log' = log \o <<ErrConn, <<"Waiting for database, retrying in 1s...">> >>
    /\ pc' = "sleep"
    /\ UNCHANGED <<db, handle, variant, deferred, sleeps, trace, closes,
                   inserted, last>>

\* wait_for_db: time.Sleep(time.Second), then the loop starts over
Sleep ==
    /\ pc = "sleep"
    /\ sleeps' = sleeps + 1
    /\ pc' = "ping"
    /\ UNCHANGED <<db, handle, variant, deferred, log, pings, trace, closes,
                   inserted, last>>

\* an entry of trace: the call, the handle it was made on, what it returned
Issued(op, err) == [op |-> op, handle |-> handle, err |-> err]

MainUnchanged == UNCHANGED <<handle, variant, deferred, pings, sleeps, closes>>

\* Seeded fault: a failed schema creation ends the process (log.Fatal)
MainCreateTableFatal ==
    /\ pc = "create_table"
    /\ \E fault \in {NoFault, "exec"} :
         LET r == create_table(db, handle, fault)
         IN  /\ db' = r.db
             /\ log' = log \o r.logs
             /\ trace' = Append(trace, Issued("create_table", r.err))
             /\ last' = Call("create_table", ZeroAlbum, "", fault, NoCut, <<>>, db,
                             [out |-> <<>>, err |-> r.err])
             /\ pc' = IF r.err # Nil THEN "exit(1)" ELSE InsertPcs[1]
    /\ UNCHANGED inserted
    /\ MainUnchanged

\* create_table(db)
MainCreateTable ==
    /\ pc = "create_table"
    /\ \E fault \in {NoFault, "exec"} :
         LET r == create_table(db, handle, fault)
         IN  /\ db' = r.db
             /\ log' = log \o r.logs
             /\ trace' = Append(trace, Issued("create_table", r.err))
             /\ last' = Call("create_table", ZeroAlbum, "", fault, NoCut, <<>>, db,
                             [out |-> <<>>, err |-> r.err])
    /\ pc' = InsertPcs[1]
    /\ UNCHANGED inserted
    /\ MainUnchanged

\* insert_data(db, album1) ... insert_data(db, album4): the returned error
\* is not assigned
MainInsertData ==
    /\ \E k \in DOMAIN InsertPcs :
         /\ pc = InsertPcs[k]
         /\ \E fault \in {NoFault, "prepare", "exec"} :
              LET r == insert_data(db, handle, MainAlbums[k], fault)
              IN  /\ db' = r.db
                  /\ log' = log \o r.logs
                  /\ trace' = Append(trace, Issued("insert_data", r.err))
                  /\ inserted' = IF r.err = Nil THEN <<MainAlbums[k]>> ELSE inserted
                  /\ last' = Call("insert_data", MainAlbums[k], "", fault, NoCut,
                                  <<>>, db, [out |-> <<>>, err |-> r.err])
         /\ pc' = IF k < Len(InsertPcs) THEN InsertPcs[k + 1] ELSE "album_by_title"
    /\ MainUnchanged

\* album_ret, err := album_by_title(db, "Grace") and the if that logs
MainAlbumByTitle ==
    /\ pc = "album_by_title"
    /\ \E fault \in {NoFault, "query"} :
         \E rs \in Delivered(db, handle, fault, FirstRows(db, ColTitle, "Grace")) :
            LET r == album_by_title(db, handle, "Grace", fault, rs)
            IN  /\ db' = r.db
                /\ log' = IF r.err # Nil
                          THEN Append(log, r.err)
                          ELSE Append(log, <<"Album titled 'Grace':">>
                                           \o FmtAlbum(r.out[1]))
                /\ trace' = Append(trace, Issued("album_by_title", r.err))
                /\ last' = Call("album_by_title", ZeroAlbum, "Grace", fault, NoCut,
                                rs, db, r)
    /\ pc' = "albums_by_artist"
    /\ UNCHANGED inserted
    /\ MainUnchanged

\* albums_ret, err := albums_by_artist(db, "Sonic Youth") and the if that logs
MainAlbumsByArtist ==
    /\ pc = "albums_by_artist"
    /\ \E fault \in {NoFault, "query"} :
         \E rs \in Delivered(db, handle, fault,
                             ResultSets(db, ColArtist, "Sonic Youth")) :
            \E cut \in Cuts(db, handle, fault, rs) :
               LET r == albums_by_artist(db, handle, "Sonic Youth", fault, rs, cut)
               IN  /\ db' = r.db
                   /\ log' = IF r.err # Nil
                             THEN Append(log, r.err)
                             ELSE log \o [i \in DOMAIN r.out |->
                                            <<"Album by 'Sonic Youth':">>
                                            \o FmtAlbum(r.out[i])]
                   /\ trace' = Append(trace, Issued("albums_by_artist", r.err))
                   /\ last' = Call("albums_by_artist", ZeroAlbum, "Sonic Youth",
                                   fault, cut, rs, db, r)
    /\ pc' = "return"
    /\ UNCHANGED inserted
    /\ MainUnchanged

\* main returns: its deferred calls run, each a db.Close()
Return ==
    /\ pc = "return"
    /\ handle' = IF deferred # <<>> THEN "closed" ELSE handle
    /\ closes' = closes + Len(deferred)
    /\ deferred' = <<>>
    /\ pc' = "done"
    /\ UNCHANGED <<db, variant, log, pings, sleeps, trace, inserted, last>>

MainNext ==
    \/ OpenOk
    \/ OpenFail
    \/ Defer
    \/ PingOk
    \/ PingFail
    \/ Sleep
    \/ MainCreateTable
    \/ MainInsertData
    \/ MainAlbumByTitle
    \/ MainAlbumsByArtist
    \/ Return

MainSpec == MainInit /\ [][MainNext]_vars

----------------------------------------------------------------------------
(* Properties of the library model (Spec) *)

\* what a row should read as: its columns, in order, as the Album's fields
Expected(row) == Album(<<row[ColId]>>, row[ColTitle], row[ColArtist], row[ColScore])

\* the rows of d whose column col is val
RowsWith(d, col, val) == {i \in DOMAIN d.rows : d.rows[i][col] = val}

\* the latest call could not reach the table: the connection failed at the
\* point named, or the table does not exist
Unreached(point) == last.fault = point \/ last.pre.tables = 0

\* C3: album_by_title fails with "no albums with title <title>" exactly
\* when the query ran and no row has the title; a failure of the driver is
\* reported as a different error, which also names the title; with a
\* matching row and no failure it returns, without error, a stored row
\* whose title is the one asked for; the table is never changed.
C3_FindOne ==
    last.op = "album_by_title" =>
        LET hits == RowsWith(last.pre, ColTitle, last.key)
            notFound == <<"no albums with title", last.key>>
        IN  /\ db = last.pre
            /\ (last.err = notFound) <=> (~Unreached("query") /\ hits = {})
            /\ Unreached("query") =>
                  /\ Len(last.err) = 3
                  /\ SubSeq(last.err, 1, 2) = <<"album_by_title", last.key>>
            /\ (~Unreached("query") /\ hits # {}) =>
                  /\ last.err = Nil
                  /\ last.out[1].Title = last.key
                  /\ \E i \in hits : last.out[1] = Expected(last.pre.rows[i])

C3_Witness ==
    /\ last.op = "album_by_title"
    /\ last.err = <<"no albums with title", last.key>>
    /\ Len(db.rows) >= 2

\* C4: an albums_by_artist call that returns no error returns one record
\* for each stored row with that artist and no other, every record has the
\* artist asked for, and the table is as it was.
C4_FindMany ==
    (last.op = "albums_by_artist" /\ last.err = Nil) =>
        LET hits == RowsWith(last.pre, ColArtist, last.key)
        IN  /\ Len(last.out) = Cardinality(hits)
            /\ \A j \in DOMAIN last.out : last.out[j].Artist = last.key
            /\ \A i \in hits :
                  \E j \in DOMAIN last.out : last.out[j] = Expected(last.pre.rows[i])
            /\ db = last.pre

C4_Witness ==
    /\ last.op = "albums_by_artist"
    /\ last.err = Nil
    /\ Len(last.out) = 2
    /\ Len(db.rows) = 3

\* album_by_title(title) was called for the title of the album inserted
\* latest, and the query reached the table
RoundTrip ==
    /\ last.op = "album_by_title"
    /\ inserted # <<>>
    /\ last.key = inserted[1].Title
    /\ last.fault = NoFault

\* the record returned has the title, artist and score inserted
SameAlbum ==
    /\ last.err = Nil
    /\ last.out[1].Title = inserted[1].Title
    /\ last.out[1].Artist = inserted[1].Artist
    /\ last.out[1].Score = inserted[1].Score

\* C5 as claimed: after a successful insert into any table state,
\* album_by_title of its title returns the title, artist and score inserted.
C5_RoundTripAnyTable == RoundTrip => SameAlbum

\* every stored row with the title of the album inserted latest has its
\* artist and score
TitleAgrees ==
    \A i \in RowsWith(db, ColTitle, inserted[1].Title) :
        /\ db.rows[i][ColArtist] = inserted[1].Artist
        /\ db.rows[i][ColScore] = inserted[1].Score

\* C5 amended: the record returned has the title asked for and is one of
\* the stored rows with that title; it has the artist and score inserted
\* whenever all stored rows with that title agree with the inserted album
\* on artist and score.
C5_RoundTrip ==
    RoundTrip =>
        /\ last.err = Nil
        /\ last.out[1].Title = inserted[1].Title
        /\ \E i \in RowsWith(db, ColTitle, last.key) :
              last.out[1] = Expected(db.rows[i])
        /\ TitleAgrees => SameAlbum

C5_Witness ==
    /\ RoundTrip
    /\ TitleAgrees
    /\ SameAlbum
    /\ Cardinality(RowsWith(db, ColTitle, last.key)) >= 2
    /\ last.out[1].ID # <<db.rows[Len(db.rows)][ColId]>>

\* C6: an insert with a score outside [0,10] returns an error that wraps
\* the violated CHECK constraint and adds no row; an insert with a score
\* in [0,10] that reaches the table returns nil; an insert that returns nil
\* has appended exactly one row, holding the album's fields under an id no
\* earlier row has; so every stored score is in [0,10] and ids are distinct.
C6_ScoreConstraint ==
    /\ \A i \in DOMAIN db.rows : db.rows[i][ColScore] \in 0..10
    /\ \A i, j \in DOMAIN db.rows : i # j => db.rows[i][ColId] # db.rows[j][ColId]
    /\ last.op = "insert_data" =>
          /\ last.album.Score \notin 0..10 =>
                /\ last.err # Nil
                /\ Head(last.err) = "insert_data:"
                /\ last.err[Len(last.err)] = Head(ErrCheck)
                      <=> (last.fault = NoFault /\ last.pre.tables >= 1)
                /\ db.rows = last.pre.rows
          /\ (last.album.Score \in 0..10 /\ last.fault = NoFault
                /\ last.pre.tables >= 1) => last.err = Nil
          /\ last.err = Nil =>
                /\ Len(db.rows) = Len(last.pre.rows) + 1
                /\ SubSeq(db.rows, 1, Len(last.pre.rows)) = last.pre.rows
                /\ LET new == db.rows[Len(db.rows)]
                   IN  /\ new[ColTitle] = last.album.Title
                       /\ new[ColArtist] = last.album.Artist
                       /\ new[ColScore] = last.album.Score
                       /\ \A i \in DOMAIN last.pre.rows :
                             last.pre.rows[i][ColId] # new[ColId]
          /\ last.err # Nil => db.rows = last.pre.rows

C6_Witness ==
    /\ last.op = "insert_data"
    /\ last.album.Score = 11
    /\ last.err = <<"insert_data:">> \o ErrCheck
    /\ Len(db.rows) >= 1
    /\ db.rows = last.pre.rows

\* C7: create_table creates the table when it is absent, and on a table that
\* exists, with any rows, it reports no error, leaves one table and leaves
\* the rows as they are.
C7_CreateIdempotent ==
    /\ db.tables <= 1
    /\ last.op = "create_table" =>
          /\ db.rows = last.pre.rows
          /\ db.nextId = last.pre.nextId
          /\ last.fault = NoFault => (last.err = Nil /\ db.tables = 1)
          /\ last.fault # NoFault => (last.err # Nil /\ db = last.pre)

C7_Witness ==
    /\ last.op = "create_table"
    /\ last.pre.tables = 1
    /\ Len(last.pre.rows) >= 2
    /\ last.err = Nil
    /\ db = last.pre

\* what albums_by_artist returns when nothing fails
Complete == [i \in DOMAIN last.rs |-> Expected(last.rs[i])]

----------------------------------------------------------------------------
(* Properties of the program model (MainSpec) *)

\* pcs of the statements that call a database function, in program order
CallPcs ==
    <<"create_table">> \o InsertPcs \o <<"album_by_title", "albums_by_artist">>

\* wait_for_db has been entered and has not returned
InWait == pc \in {"ping", "sleep"}

\* wait_for_db has returned
Returned == pc \in {CallPcs[k] : k \in DOMAIN CallPcs} \cup {"return", "done"}

\* the retries logged so far
Retries ==
    Cardinality({j \in DOMAIN log :
                    log[j] = <<"Waiting for database, retrying in 1s...">>})

\* C1: when wait_for_db has returned, the last ping succeeded and every
\* ping before it failed, so N failures cost N + 1 pings, N logged retries
\* and N sleeps; while it has not returned every ping has failed, each failure
\* is logged once and slept on once, and after any number of failures
\* another failure is still answered by a retry, never by a return.
C1_WaitForDb ==
    /\ Returned =>
          /\ pings # <<>>
          /\ pings[Len(pings)] = "ok"
          /\ \A i \in 1..(Len(pings) - 1) : pings[i] = "fail"
          /\ Retries = Len(pings) - 1
          /\ sleeps = Retries
    /\ InWait =>
          /\ \A i \in DOMAIN pings : pings[i] = "fail"
          /\ Retries = Len(pings)
          /\ sleeps = IF pc = "sleep" THEN Retries - 1 ELSE Retries
    /\ (pc = "ping" /\ Len(pings) < MaxPingFails) => ENABLED PingFail
    /\ pc \in {"open", "defer", "exit(1)"} => (pings = <<>> /\ sleeps = 0)

C1_Witness ==
    /\ pc = "create_table"
    /\ pings = <<"fail", "fail", "ok">>
    /\ Retries = 2
    /\ sleeps = 2

\* C2 as claimed: the process ends early only when sql.Open fails, every
\* error a database function returns is logged, and no database function
\* is called more often than the program text calls it.
C2_ErrorsLogged ==
    /\ pc = "exit(1)" => (handle = "unopened" /\ trace = <<>>)
    /\ \A i \in DOMAIN trace :
          trace[i].err # Nil => \E j \in DOMAIN log : log[j] = trace[i].err
    /\ Len(trace) <= Len(MainCalls)

\* C8: db.Close() runs once, when main returns, on every path on which
\* sql.Open succeeded, and not before; every call and every ping is made on
\* the open handle; when sql.Open fails the process exits with no Close
\* deferred and none run.
C8_HandleLifetime ==
    /\ closes <= 1
    /\ pc = "done" <=> closes = 1
    /\ closes = 1 <=> handle = "closed"
    /\ handle = "unopened" <=> pc \in {"open", "exit(1)"}
    /\ \A i \in DOMAIN trace : trace[i].handle = "open"
    /\ InWait => handle = "open"
    /\ (InWait \/ (Returned /\ pc # "done")) => deferred = <<"db.Close">>
    /\ pc \in {"open", "defer", "exit(1)", "done"} => deferred = <<>>

C8_Witness ==
    /\ pc = "done"
    /\ variant = "full"
    /\ closes = 1
    /\ Len(trace) = Len(MainCalls)
    /\ trace[Len(trace)].handle = "open"

====
